---- MODULE Spec2Model ----
(***************************************************************************)
(* The `reduce` command of easypqp (src/easypqp/main.py, lines 120-173):   *)
(* copy a PQP store, bin its non-decoy precursors along the retention      *)
(* time, keep the first `peptides` precursors of every bin, and delete     *)
(* everything else from the seven linked tables.                           *)
(*                                                                         *)
(* Retention times are integers here; pandas.cut is computed in exact      *)
(* arithmetic, every bin edge scaled by 1000 * bins so that it stays an    *)
(* integer (floating point rounding of numpy.linspace is not modelled).    *)
(* groupby(...).head() drops the rows whose key is NaN (dropna=True, the   *)
(* documented pandas behaviour).                                           *)
(***************************************************************************)
EXTENDS Integers, Sequences, FiniteSets, TLC

VARIABLES
    infile,             \* --in
    outfile,            \* --out
    bins,               \* --bins
    peptides,           \* --peptides
    fs,                 \* the files on disk: path -> [exists, db] (committed content)
    con,                \* the sqlite3 connection: [open, path, db] (db: its view, uncommitted changes included)
    anchor_candidates,  \* DataFrame of line 141/143: rows [PRECURSOR_ID, LIBRARY_RT, BIN]
    anchors,            \* DataFrame of line 145
    pc,                 \* the statement to execute next
    failedAt,           \* the statement that raised, "" if none did
    log,                \* the I/O events so far, oldest first
    fs0,                \* the files on disk when the command started
    run,                \* 1 for the first invocation, 2 for a second one on its output
    firstOut            \* the output of the first invocation, once it is done

vars == <<infile, outfile, bins, peptides, fs, con, anchor_candidates, anchors,
          pc, failedAt, log, fs0, run, firstOut>>

\* ---------------------------------------------------------------- bounds
MaxPrec == 3
MaxBins == 3
MaxPeptides == 2

\* ---------------------------------------------------------------- values
NULL == 0 - 1
NaN == NULL
None == "None"
RTValues == {0, 2, 4}
DecoyRTs == {7}
Paths == {"in.pqp", "out.pqp", "out2.pqp"}

Abs(x) == IF x < 0 THEN 0 - x ELSE x

Range(s) == {s[i] : i \in 1..Len(s)}

\* x NOT IN (SELECT ...), with SQL's three-valued logic: NULL never qualifies
NotIn(x, S) == x # NULL /\ NULL \notin S /\ x \notin S

\* ---------------------------------------------------------------- the store
EmptyDb ==
    [PRECURSOR |-> <<>>,
     TRANSITION |-> {},
     TRANSITION_PRECURSOR_MAPPING |-> {},
     PEPTIDE |-> {},
     PRECURSOR_PEPTIDE_MAPPING |-> {},
     PEPTIDE_PROTEIN_MAPPING |-> {},
     PROTEIN |-> {},
     has_temp_anchors |-> FALSE,
     temp_anchors |-> <<>>]

NoFile == [exists |-> FALSE, db |-> EmptyDb]
NoCon == [open |-> FALSE, path |-> "", db |-> EmptyDb]

PrecursorIds(db) == {db.PRECURSOR[i].ID : i \in 1..Len(db.PRECURSOR)}

\* ---------------------------------------------------------------- line 141
\* SELECT PRECURSOR.ID AS PRECURSOR_ID, LIBRARY_RT FROM PRECURSOR WHERE PRECURSOR.DECOY == 0
SelectCandidatesAll(db) ==
    [i \in 1..Len(db.PRECURSOR) |->
        [PRECURSOR_ID |-> db.PRECURSOR[i].ID, LIBRARY_RT |-> db.PRECURSOR[i].LIBRARY_RT]]

SelectCandidates(db) ==
    LET rows == SelectSeq(db.PRECURSOR, LAMBDA r : r.DECOY = 0)
    IN  [i \in 1..Len(rows) |->
            [PRECURSOR_ID |-> rows[i].ID, LIBRARY_RT |-> rows[i].LIBRARY_RT]]

\* ---------------------------------------------------------------- line 143
\* pd.cut(x, bins=nb, right=False, labels=False)
SetMin(S) == CHOOSE x \in S : \A y \in S : x <= y
SetMax(S) == CHOOSE x \in S : \A y \in S : x >= y

RTs(c) == {c[i].LIBRARY_RT : i \in 1..Len(c)} \ {NULL}

\* every edge is scaled by this factor
Scale(nb) == 1000 * nb

\* edge i (0..nb) of numpy.linspace(mn, mx, nb + 1), end points adjusted as pandas
\* does for right=False: a range of width zero is widened by 0.1% of |mn| (by 0.001
\* when mn = 0) on both sides before binning, any other range has 0.1% of its width
\* added to the last edge after binning
BinEdge(mn, mx, nb, i) ==
    IF mn = mx
    THEN LET d  == IF mn # 0 THEN Abs(mn) ELSE 1
             lo == 1000 * mn - d
             hi == 1000 * mx + d
         IN  nb * lo + i * (hi - lo)
    ELSE nb * 1000 * mn + i * 1000 * (mx - mn)
             + (IF i = nb THEN nb * (mx - mn) ELSE 0)

CutLabelLeft(x, mn, mx, nb) ==
    IF x = NULL
    THEN NaN
    ELSE LET ids == Cardinality({i \in 0..nb : BinEdge(mn, mx, nb, i) < Scale(nb) * x})
         IN  IF ids = 0 \/ ids = nb + 1 THEN NaN ELSE ids - 1

\* ids = bins.searchsorted(x, side='right'); label = ids - 1, NaN outside the edges
CutLabel(x, mn, mx, nb) ==
    IF x = NULL
    THEN NaN
    ELSE LET ids == Cardinality({i \in 0..nb : BinEdge(mn, mx, nb, i) <= Scale(nb) * x})
         IN  IF ids = 0 \/ ids = nb + 1 THEN NaN ELSE ids - 1

Cut(c, nb) ==
    LET mn == SetMin(RTs(c))
        mx == SetMax(RTs(c))
    IN  [i \in 1..Len(c) |->
            [PRECURSOR_ID |-> c[i].PRECURSOR_ID,
             LIBRARY_RT |-> c[i].LIBRARY_RT,
             BIN |-> CutLabel(c[i].LIBRARY_RT, mn, mx, nb)]]

\* every label NaN: what pd.cut returns when no value is a number
CutAllNaN(c) ==
    [i \in 1..Len(c) |->
        [PRECURSOR_ID |-> c[i].PRECURSOR_ID, LIBRARY_RT |-> c[i].LIBRARY_RT, BIN |-> NaN]]

\* ---------------------------------------------------------------- line 145
\* groupby('BIN').head(k): the rows whose position within their group is below k
RECURSIVE KeepRows(_, _, _)
KeepRows(s, mask, i) ==
    IF i > Len(s)
    THEN <<>>
    ELSE (IF mask[i] THEN <<s[i]>> ELSE <<>>) \o KeepRows(s, mask, i + 1)

CumCount(c, i) == Cardinality({j \in 1..(i - 1) : c[j].BIN = c[i].BIN})

CumCountDescending(c, i) == Cardinality({j \in (i + 1)..Len(c) : c[j].BIN = c[i].BIN})

GroupTail(c, k) ==
    KeepRows(c, [i \in 1..Len(c) |-> c[i].BIN # NaN /\ CumCountDescending(c, i) < k], 1)

GroupHead(c, k) ==
    KeepRows(c, [i \in 1..Len(c) |-> c[i].BIN # NaN /\ CumCount(c, i) < k], 1)

\* ---------------------------------------------------------------- line 147
\* anchors[['PRECURSOR_ID','LIBRARY_RT']].to_sql('temp_anchors', con, index=False)
TempRows(a) ==
    [i \in 1..Len(a) |-> [PRECURSOR_ID |-> a[i].PRECURSOR_ID, LIBRARY_RT |-> a[i].LIBRARY_RT]]

WriteAnchors(db, a) ==
    [db EXCEPT !.has_temp_anchors = TRUE, !.temp_anchors = TempRows(a)]

\* SELECT PRECURSOR_ID FROM temp_anchors
TempIds(db) == {db.temp_anchors[i].PRECURSOR_ID : i \in 1..Len(db.temp_anchors)}

\* ---------------------------------------------------------------- lines 150-160
Keep(db) == db

DeletePrecursors(db) ==
    [db EXCEPT !.PRECURSOR = SelectSeq(@, LAMBDA r : ~NotIn(r.ID, TempIds(db)))]

DeleteTransitionMappings(db) ==
    [db EXCEPT !.TRANSITION_PRECURSOR_MAPPING =
        {m \in @ : ~NotIn(m.PRECURSOR_ID, TempIds(db))}]

DeleteTransitions(db) ==
    [db EXCEPT !.TRANSITION =
        {t \in @ : ~NotIn(t, {m.TRANSITION_ID : m \in db.TRANSITION_PRECURSOR_MAPPING})}]

DeletePeptideMappings(db) ==
    [db EXCEPT !.PRECURSOR_PEPTIDE_MAPPING =
        {m \in @ : ~NotIn(m.PRECURSOR_ID, TempIds(db))}]

DeletePeptidesByProteinMapping(db) ==
    [db EXCEPT !.PEPTIDE =
        {p \in @ : ~NotIn(p, {m.PEPTIDE_ID : m \in db.PEPTIDE_PROTEIN_MAPPING})}]

DeletePeptides(db) ==
    [db EXCEPT !.PEPTIDE =
        {p \in @ : ~NotIn(p, {m.PEPTIDE_ID : m \in db.PRECURSOR_PEPTIDE_MAPPING})}]

DeleteProteinMappings(db) ==
    [db EXCEPT !.PEPTIDE_PROTEIN_MAPPING =
        {m \in @ : ~NotIn(m.PEPTIDE_ID, {q.PEPTIDE_ID : q \in db.PRECURSOR_PEPTIDE_MAPPING})}]

DeleteProteins(db) ==
    [db EXCEPT !.PROTEIN =
        {p \in @ : ~NotIn(p, {m.PROTEIN_ID : m \in db.PEPTIDE_PROTEIN_MAPPING})}]

\* ---------------------------------------------------------------- line 163
DropTemp(db) == [db EXCEPT !.has_temp_anchors = FALSE, !.temp_anchors = <<>>]

\* ---------------------------------------------------------------- input stores
\* a precursor is a target with a retention time, a target without one, or a decoy
Kinds ==
    [LIBRARY_RT : RTValues \cup {NULL}, DECOY : {0}]
        \cup [LIBRARY_RT : DecoyRTs, DECOY : {1}]

Shapes == {"own", "shared"}

\* A store that satisfies referential integrity, precursor i stored at position i.
\* "own": precursor i has transition i, peptide i and protein i.
\* "shared": besides, one transition belongs to all precursors, two consecutive
\* precursors share their peptide, and one protein is mapped to every peptide.
MkDb(ks, shape) ==
    LET n     == Len(ks)
        sh    == shape = "shared" /\ n > 0
        pep(i) == IF shape = "shared" THEN (i + 1) \div 2 ELSE i
        peps  == {pep(i) : i \in 1..n}
    IN  [PRECURSOR |->
            [i \in 1..n |-> [ID |-> i, LIBRARY_RT |-> ks[i].LIBRARY_RT, DECOY |-> ks[i].DECOY]],
         TRANSITION |-> (1..n) \cup (IF sh THEN {n + 1} ELSE {}),
         TRANSITION_PRECURSOR_MAPPING |->
            {[TRANSITION_ID |-> i, PRECURSOR_ID |-> i] : i \in 1..n}
                \cup (IF sh THEN {[TRANSITION_ID |-> n + 1, PRECURSOR_ID |-> i] : i \in 1..n}
                            ELSE {}),
         PEPTIDE |-> peps,
         PRECURSOR_PEPTIDE_MAPPING |->
            {[PRECURSOR_ID |-> i, PEPTIDE_ID |-> pep(i)] : i \in 1..n},
         PEPTIDE_PROTEIN_MAPPING |->
            {[PEPTIDE_ID |-> j, PROTEIN_ID |-> j] : j \in peps}
                \cup (IF sh THEN {[PEPTIDE_ID |-> j, PROTEIN_ID |-> n + 1] : j \in peps}
                            ELSE {}),
         PROTEIN |-> peps \cup (IF sh THEN {n + 1} ELSE {}),
         has_temp_anchors |-> FALSE,
         temp_anchors |-> <<>>]

InputStores == {MkDb(ks, sh) : ks \in UNION {[1..n -> Kinds] : n \in 0..MaxPrec}, sh \in Shapes}

\* ---------------------------------------------------------------- Init
\* click: --in is required and exists, --out is required (never None), --bins and
\* --peptides are integers
InitWith(stores) ==
    /\ infile = "in.pqp"
    /\ outfile \in {"in.pqp", "out.pqp"}
    /\ bins \in 0..MaxBins
    /\ peptides \in 0..MaxPeptides
    /\ \E db \in stores :
          fs = [p \in Paths |-> IF p = "in.pqp" THEN [exists |-> TRUE, db |-> db] ELSE NoFile]
    /\ fs0 = fs
    /\ con = NoCon
    /\ anchor_candidates = <<>>
    /\ anchors = <<>>
    /\ pc = "copyfile"
    /\ failedAt = ""
    /\ log = <<>>
    /\ run = 1
    /\ firstOut = EmptyDb

Init == InitWith(InputStores)

\* ---------------------------------------------------------------- actions
Raise ==
    /\ pc' = "error"
    /\ failedAt' = pc
    /\ con' = NoCon

CopyfileInPlace ==
    /\ pc = "copyfile"
    /\ IF outfile = None \/ outfile = infile
       THEN /\ outfile' = infile
            /\ pc' = "connect"
            /\ UNCHANGED <<fs, log, failedAt, con>>
       ELSE /\ fs' = [fs EXCEPT ![outfile] = fs[infile]]
            /\ log' = Append(log, "copyfile")
            /\ pc' = "connect"
            /\ UNCHANGED <<outfile, failedAt, con>>
    /\ UNCHANGED <<infile, bins, peptides, anchor_candidates, anchors, fs0, run, firstOut>>

\* lines 132-137; shutil.copyfile raises SameFileError when both paths name one file
Copyfile ==
    /\ pc = "copyfile"
    /\ IF outfile = None
       THEN /\ outfile' = infile
            /\ pc' = "connect"
            /\ UNCHANGED <<fs, log, failedAt, con>>
       ELSE IF outfile = infile
            THEN /\ Raise
                 /\ UNCHANGED <<outfile, fs, log>>
            ELSE /\ fs' = [fs EXCEPT ![outfile] = fs[infile]]
                 /\ log' = Append(log, "copyfile")
                 /\ pc' = "connect"
                 /\ UNCHANGED <<outfile, failedAt, con>>
    /\ UNCHANGED <<infile, bins, peptides, anchor_candidates, anchors, fs0, run, firstOut>>

\* line 139
Connect ==
    /\ pc = "connect"
    /\ con' = [open |-> TRUE, path |-> outfile, db |-> fs[outfile].db]
    /\ log' = Append(log, "connect")
    /\ pc' = "read_sql"
    /\ UNCHANGED <<infile, outfile, bins, peptides, fs, anchor_candidates, anchors,
                   failedAt, fs0, run, firstOut>>

\* line 141
ReadSql ==
    /\ pc = "read_sql"
    /\ anchor_candidates' = SelectCandidates(con.db)
    /\ log' = Append(log, "select")
    /\ pc' = "cut"
    /\ UNCHANGED <<infile, outfile, bins, peptides, fs, con, anchors,
                   failedAt, fs0, run, firstOut>>

\* line 143; pd.cut raises ValueError for bins < 1 and for an empty column. When
\* no retention time is a number the edges are all NaN: pandas then either raises
\* or labels every row NaN, depending on the bin count and the column's dtype.
CutStep ==
    /\ pc = "cut"
    /\ IF bins < 1 \/ Len(anchor_candidates) = 0
       THEN /\ Raise
            /\ UNCHANGED anchor_candidates
       ELSE IF RTs(anchor_candidates) = {}
            THEN \/ /\ Raise
                    /\ UNCHANGED anchor_candidates
                 \/ /\ anchor_candidates' = CutAllNaN(anchor_candidates)
                    /\ pc' = "head"
                    /\ UNCHANGED <<failedAt, con>>
            ELSE /\ anchor_candidates' = Cut(anchor_candidates, bins)
                 /\ pc' = "head"
                 /\ UNCHANGED <<failedAt, con>>
    /\ UNCHANGED <<infile, outfile, bins, peptides, fs, anchors, log, fs0, run, firstOut>>

\* line 145
HeadStep ==
    /\ pc = "head"
    /\ anchors' = GroupHead(anchor_candidates, peptides)
    /\ pc' = "to_sql"
    /\ UNCHANGED <<infile, outfile, bins, peptides, fs, con, anchor_candidates,
                   failedAt, log, fs0, run, firstOut>>

\* line 147; pandas creates the table, inserts the rows and commits
ToSql ==
    /\ pc = "to_sql"
    /\ IF con.db.has_temp_anchors
       THEN /\ Raise
            /\ UNCHANGED <<fs, log>>
       ELSE /\ con' = [con EXCEPT !.db = WriteAnchors(@, anchors)]
            /\ fs' = [fs EXCEPT ![con.path].db = WriteAnchors(con.db, anchors)]
            /\ log' = log \o <<"to_sql", "commit">>
            /\ pc' = "del_precursor"
            /\ UNCHANGED failedAt
    /\ UNCHANGED <<infile, outfile, bins, peptides, anchor_candidates, anchors,
                   fs0, run, firstOut>>

\* con.execute of a statement that changes rows: sqlite3 opens a transaction, the
\* change stays in the connection until commit
Execute(at, next, event, db) ==
    /\ pc = at
    /\ con' = [con EXCEPT !.db = db]
    /\ log' = Append(log, event)
    /\ pc' = next
    /\ UNCHANGED <<infile, outfile, bins, peptides, fs, anchor_candidates, anchors,
                   failedAt, fs0, run, firstOut>>

\* line 150
DelPrecursor == Execute("del_precursor", "del_tpm", "delete PRECURSOR", DeletePrecursors(con.db))
\* line 153
DelTpm == Execute("del_tpm", "del_transition", "delete TRANSITION_PRECURSOR_MAPPING",
                  DeleteTransitionMappings(con.db))
\* line 154
DelTransition == Execute("del_transition", "del_ppm", "delete TRANSITION", DeleteTransitions(con.db))
\* line 157
DelPpm == Execute("del_ppm", "del_peptide", "delete PRECURSOR_PEPTIDE_MAPPING",
                  DeletePeptideMappings(con.db))
\* line 158
DelPeptide == Execute("del_peptide", "del_pepprot", "delete PEPTIDE", DeletePeptides(con.db))
\* line 159
DelPepProt == Execute("del_pepprot", "del_protein", "delete PEPTIDE_PROTEIN_MAPPING",
                      DeleteProteinMappings(con.db))
\* line 160
DelProtein == Execute("del_protein", "drop", "delete PROTEIN", DeleteProteins(con.db))
\* line 163
Drop == Execute("drop", "commit", "drop temp_anchors", DropTemp(con.db))

\* line 165
Commit ==
    /\ pc = "commit"
    /\ fs' = [fs EXCEPT ![con.path].db = con.db]
    /\ log' = Append(log, "commit")
    /\ pc' = "vacuum"
    /\ UNCHANGED <<infile, outfile, bins, peptides, con, anchor_candidates, anchors,
                   failedAt, fs0, run, firstOut>>

\* line 168; VACUUM rewrites the file, its rows stay
Vacuum ==
    /\ pc = "vacuum"
    /\ log' = Append(log, "vacuum")
    /\ pc' = "close"
    /\ UNCHANGED <<infile, outfile, bins, peptides, fs, con, anchor_candidates, anchors,
                   failedAt, fs0, run, firstOut>>

\* line 171
Close ==
    /\ pc = "close"
    /\ con' = NoCon
    /\ log' = Append(log, "close")
    /\ pc' = "done"
    /\ UNCHANGED <<infile, outfile, bins, peptides, fs, anchor_candidates, anchors,
                   failedAt, fs0, run, firstOut>>

\* A statement sent to sqlite raises (a table the store lacks, an I/O error, a
\* locked file). reduce has no handler: the exception ends the command, the
\* connection is dropped and its open transaction is rolled back, so the file
\* keeps what was committed.
SqlSteps ==
    {"read_sql", "to_sql", "del_precursor", "del_tpm", "del_transition", "del_ppm",
     "del_peptide", "del_pepprot", "del_protein", "drop", "commit", "vacuum"}

Fail ==
    /\ pc \in SqlSteps
    /\ Raise
    /\ UNCHANGED <<infile, outfile, bins, peptides, fs, anchor_candidates, anchors,
                   log, fs0, run, firstOut>>

Next ==
    \/ Copyfile
    \/ Connect
    \/ ReadSql
    \/ CutStep
    \/ HeadStep
    \/ ToSql
    \/ DelPrecursor
    \/ DelTpm
    \/ DelTransition
    \/ DelPpm
    \/ DelPeptide
    \/ DelPepProt
    \/ DelProtein
    \/ Drop
    \/ Commit
    \/ Vacuum
    \/ Close
    \/ Fail

Spec == Init /\ [][Next]_vars

\* ---------------------------------------------------------------- a second run
\* reduce --in <the output of the first run> --out out2.pqp, same --bins and --peptides
IdemRTValues == {0, 1, 2, 5}

IdemStores ==
    {MkDb(ks, sh) : ks \in [1..(MaxPrec + 1) -> [LIBRARY_RT : IdemRTValues, DECOY : {0}]],
                    sh \in Shapes}

InitIdem == InitWith(IdemStores) /\ outfile = "out.pqp" /\ bins >= 1

Rerun ==
    /\ pc = "done"
    /\ run = 1
    /\ run' = 2
    /\ firstOut' = fs[outfile].db
    /\ infile' = outfile
    /\ outfile' = "out2.pqp"
    /\ fs0' = fs
    /\ log' = <<>>
    /\ anchor_candidates' = <<>>
    /\ anchors' = <<>>
    /\ pc' = "copyfile"
    /\ UNCHANGED <<bins, peptides, fs, con, failedAt>>

NextIdem == Next \/ Rerun

SpecIdem == InitIdem /\ [][NextIdem]_vars

\* ================================================================ properties
In == fs0[infile].db
Out == fs[outfile].db

Targets(db) == SelectSeq(db.PRECURSOR, LAMBDA r : r.DECOY = 0)
TargetRTs(db) == {r.LIBRARY_RT : r \in Range(Targets(db))} \ {NULL}

MappingsResolve(db) ==
    /\ \A m \in db.TRANSITION_PRECURSOR_MAPPING :
          m.TRANSITION_ID \in db.TRANSITION /\ m.PRECURSOR_ID \in PrecursorIds(db)
    /\ \A m \in db.PRECURSOR_PEPTIDE_MAPPING :
          m.PRECURSOR_ID \in PrecursorIds(db) /\ m.PEPTIDE_ID \in db.PEPTIDE
    /\ \A m \in db.PEPTIDE_PROTEIN_MAPPING :
          m.PEPTIDE_ID \in db.PEPTIDE /\ m.PROTEIN_ID \in db.PROTEIN

ParentsReferenced(db) ==
    /\ \A id \in PrecursorIds(db) :
          \/ \E m \in db.TRANSITION_PRECURSOR_MAPPING : m.PRECURSOR_ID = id
          \/ \E m \in db.PRECURSOR_PEPTIDE_MAPPING : m.PRECURSOR_ID = id
    /\ \A t \in db.TRANSITION : \E m \in db.TRANSITION_PRECURSOR_MAPPING : m.TRANSITION_ID = t
    /\ \A p \in db.PEPTIDE :
          \/ \E m \in db.PRECURSOR_PEPTIDE_MAPPING : m.PEPTIDE_ID = p
          \/ \E m \in db.PEPTIDE_PROTEIN_MAPPING : m.PEPTIDE_ID = p
    /\ \A p \in db.PROTEIN : \E m \in db.PEPTIDE_PROTEIN_MAPPING : m.PROTEIN_ID = p

ReferentialIntegrity(db) == MappingsResolve(db) /\ ParentsReferenced(db)

\* C1: once reduce has completed on a store that satisfies referential integrity
\* and holds a non-decoy precursor, with bins >= 1 and peptides >= 0, every mapping
\* row of the output references existing rows and every retained protein, peptide,
\* precursor and transition is referenced by a mapping row.
C1_ReferentialIntegrity ==
    (pc = "done" /\ ReferentialIntegrity(In) /\ Len(Targets(In)) >= 1 /\ bins >= 1)
        => ReferentialIntegrity(Out)

C1_Witness ==
    /\ pc = "done"
    /\ ReferentialIntegrity(In)
    /\ Len(Out.PRECURSOR) >= 1
    /\ Len(Out.PRECURSOR) < Len(In.PRECURSOR)
    /\ Out.PROTEIN # In.PROTEIN
    /\ Out.TRANSITION # {}

\* the bin a kept precursor was assigned to: the label of its row in anchors
AssignedBins(id) == {anchors[j].BIN : j \in {k \in 1..Len(anchors) : anchors[k].PRECURSOR_ID = id}}

\* x lies in bin b of nb equal-width bins over [mn, mx], half-open, the last closed
InEqualWidthBin(x, b, mn, mx, nb) ==
    /\ b \in 0..(nb - 1)
    /\ nb * x >= nb * mn + b * (mx - mn)
    /\ \/ nb * x < nb * mn + (b + 1) * (mx - mn)
       \/ b = nb - 1 /\ x <= mx

\* x lies in bin b of nb equal-width half-open bins over a single value mn widened
\* by 0.1% of |mn| (by 0.001 when mn = 0) on both sides
InWidenedBin(x, b, mn, nb) ==
    LET d == IF mn = 0 THEN 1 ELSE Abs(mn)
    IN  /\ b \in 0..(nb - 1)
        /\ nb * 1000 * x >= nb * (1000 * mn - d) + b * 2 * d
        /\ nb * 1000 * x < nb * (1000 * mn - d) + (b + 1) * 2 * d

KeptInBins(InBin(_, _)) ==
    \A i \in 1..Len(Out.PRECURSOR) :
        /\ AssignedBins(Out.PRECURSOR[i].ID) # {}
        /\ \A b \in AssignedBins(Out.PRECURSOR[i].ID) : InBin(Out.PRECURSOR[i].LIBRARY_RT, b)

\* C2 as stated: reduce leaves at most bins * peptides precursors, each inside its
\* assigned bin of bins equal-width bins over [min RT, max RT] of the non-decoy
\* precursors, half-open except the last.
C2_AsStated ==
    (pc = "done" /\ TargetRTs(In) # {})
        => /\ Len(Out.PRECURSOR) <= bins * peptides
           /\ KeptInBins(LAMBDA x, b :
                  InEqualWidthBin(x, b, SetMin(TargetRTs(In)), SetMax(TargetRTs(In)), bins))

\* C2 as amended: the same, but when all non-decoy retention times are equal the
\* bins are equal-width over that value widened by 0.1% on both sides.
C2_BinsOfKept ==
    (pc = "done" /\ TargetRTs(In) # {})
        => /\ Len(Out.PRECURSOR) <= bins * peptides
           /\ LET mn == SetMin(TargetRTs(In))
                  mx == SetMax(TargetRTs(In))
              IN  KeptInBins(LAMBDA x, b :
                      IF mn < mx THEN InEqualWidthBin(x, b, mn, mx, bins)
                                 ELSE InWidenedBin(x, b, mn, bins))

C2_Witness ==
    /\ pc = "done"
    /\ bins >= 2
    /\ \E i, j \in 1..Len(Out.PRECURSOR) :
          /\ AssignedBins(Out.PRECURSOR[i].ID) = {0}
          /\ AssignedBins(Out.PRECURSOR[j].ID) = {bins - 1}
          /\ Out.PRECURSOR[j].LIBRARY_RT = SetMax(TargetRTs(In))
    /\ \E i \in 1..Len(Out.PRECURSOR) :
          \E b \in 1..(bins - 1) :
             /\ AssignedBins(Out.PRECURSOR[i].ID) = {b}
             /\ bins * Out.PRECURSOR[i].LIBRARY_RT
                   = bins * SetMin(TargetRTs(In)) + b * (SetMax(TargetRTs(In)) - SetMin(TargetRTs(In)))

\* the store the first run read, which no run writes
Original == fs["in.pqp"].db

SameRange(a, b) ==
    /\ TargetRTs(a) # {}
    /\ TargetRTs(b) # {}
    /\ SetMin(TargetRTs(a)) = SetMin(TargetRTs(b))
    /\ SetMax(TargetRTs(a)) = SetMax(TargetRTs(b))

\* C3 as stated: reduce with the same bins and peptides on the output of reduce
\* yields an identical store.
C3_AsStated == (run = 2 /\ pc = "done") => Out = firstOut

\* C3 as amended: the second run yields an identical store when the precursors the
\* first run kept span the same retention time range as the non-decoy precursors
\* of its input, so that both runs compute the same bins.
C3_IdempotentOnSameRange ==
    (run = 2 /\ pc = "done" /\ SameRange(Original, firstOut)) => Out = firstOut

C3_Witness ==
    /\ run = 2
    /\ pc = "done"
    /\ SameRange(Original, firstOut)
    /\ Len(firstOut.PRECURSOR) >= 2
    /\ Len(firstOut.PRECURSOR) < Len(Original.PRECURSOR)
    /\ Out = firstOut

\* C4: whether reduce succeeds or fails, the file named by --in keeps its tables
\* and rows; only the file named by --out is written.
C4_InputUntouched ==
    /\ fs[infile] = fs0[infile]
    /\ \A p \in Paths \ {outfile} : fs[p] = fs0[p]

C4_Witness ==
    /\ pc = "done"
    /\ fs[outfile].exists
    /\ Len(fs[outfile].db.PRECURSOR) < Len(fs[infile].db.PRECURSOR)

\* C5: when a step of reduce fails after the store is opened, the store reduce
\* writes to holds exactly the tables and rows it held before the reduction, and
\* no temp_anchors table (checked for stores with a non-decoy retention time).
C5_AsStated ==
    (pc = "error" /\ failedAt \in SqlSteps \cup {"cut"} /\ TargetRTs(In) # {})
        => (Out = In /\ ~Out.has_temp_anchors)

\* C6: with --bins 0 reduce fails before any I/O: no file is created or written and
\* no connection is opened.
C6_AsStated ==
    (bins = 0 /\ pc = "error" /\ failedAt = "cut") => (fs = fs0 /\ "connect" \notin Range(log))

\* C7: between two consecutive statements of the cascade every mapping row of the
\* store references an existing precursor, transition, peptide or protein (checked
\* for stores that satisfy referential integrity and hold a non-decoy retention time).
C7_AsStated ==
    (pc \in {"del_tpm", "del_transition", "del_ppm", "del_peptide", "del_pepprot", "del_protein"}
        /\ ReferentialIntegrity(In) /\ TargetRTs(In) # {})
        => MappingsResolve(con.db)

\* the first k rows of s
Prefix(s, k) == SubSeq(s, 1, IF k < Len(s) THEN k ELSE Len(s))

InBinRows(f, b) == SelectSeq(f, LAMBDA r : r.BIN = b)

AfterHead ==
    pc \in {"to_sql", "del_precursor", "del_tpm", "del_transition", "del_ppm", "del_peptide",
            "del_pepprot", "del_protein", "drop", "commit", "vacuum", "close", "done"}

\* 100 non-decoy precursors, LIBRARY_RT 0, 1, ..., 99, reduced with bins=10, peptides=5
ScenarioCandidates == [i \in 1..100 |-> [PRECURSOR_ID |-> i, LIBRARY_RT |-> i - 1]]
ScenarioAnchors == GroupHead(Cut(ScenarioCandidates, 10), 5)

\* C8: the anchors of every bin are the first min(peptides, size of the bin)
\* non-decoy precursors of that bin in stored order, an empty bin has none, and
\* the precursors reduce leaves are exactly the anchors; the 100-precursor
\* scenario keeps 50 anchors, 5 per bin.
C8_FirstKPerBin ==
    /\ AfterHead =>
          /\ \A b \in 0..(bins - 1) :
                InBinRows(anchors, b) = Prefix(InBinRows(anchor_candidates, b), peptides)
          /\ \A j \in 1..Len(anchors) : anchors[j].BIN \in 0..(bins - 1)
    /\ pc = "done" =>
          [i \in 1..Len(Out.PRECURSOR) |-> Out.PRECURSOR[i].ID]
              = [j \in 1..Len(anchors) |-> anchors[j].PRECURSOR_ID]
    /\ Len(ScenarioAnchors) = 50
    /\ \A b \in 0..9 : Len(InBinRows(ScenarioAnchors, b)) = 5

C8_Witness ==
    /\ pc = "done"
    /\ \E b \in 0..(bins - 1) : InBinRows(anchor_candidates, b) = <<>>
    /\ \E b \in 0..(bins - 1) :
          /\ Len(InBinRows(anchor_candidates, b)) > peptides
          /\ Len(InBinRows(anchors, b)) >= 1

\* C9: the commit comes after the VACUUM, and nothing reduce does is durable in
\* the store before that commit (checked for stores with a non-decoy retention time).
C9_AsStated ==
    TargetRTs(In) # {} =>
        /\ \A i \in 1..Len(log) : log[i] = "commit" => \E j \in 1..(i - 1) : log[j] = "vacuum"
        /\ (con.open /\ "vacuum" \notin Range(log)) => fs[con.path].db = In

\* C10: after reduce completes the store holds no decoy precursor and no precursor
\* without LIBRARY_RT, no mapping row of a deleted precursor, every table is a
\* subset of the input's table, and temp_anchors is gone.
C10_NoDecoyOnlyRemovals ==
    pc = "done" =>
        /\ \A r \in Range(Out.PRECURSOR) : r.DECOY = 0 /\ r.LIBRARY_RT # NULL
        /\ \A r \in Range(In.PRECURSOR) :
              (r.DECOY # 0 \/ r.LIBRARY_RT = NULL) =>
                  /\ \A m \in Out.TRANSITION_PRECURSOR_MAPPING : m.PRECURSOR_ID # r.ID
                  /\ \A m \in Out.PRECURSOR_PEPTIDE_MAPPING : m.PRECURSOR_ID # r.ID
        /\ Range(Out.PRECURSOR) \subseteq Range(In.PRECURSOR)
        /\ Out.TRANSITION \subseteq In.TRANSITION
        /\ Out.TRANSITION_PRECURSOR_MAPPING \subseteq In.TRANSITION_PRECURSOR_MAPPING
        /\ Out.PEPTIDE \subseteq In.PEPTIDE
        /\ Out.PRECURSOR_PEPTIDE_MAPPING \subseteq In.PRECURSOR_PEPTIDE_MAPPING
        /\ Out.PEPTIDE_PROTEIN_MAPPING \subseteq In.PEPTIDE_PROTEIN_MAPPING
        /\ Out.PROTEIN \subseteq In.PROTEIN
        /\ ~Out.has_temp_anchors

C10_Witness ==
    /\ pc = "done"
    /\ \E r \in Range(In.PRECURSOR) : r.DECOY # 0
    /\ \E r \in Range(In.PRECURSOR) : r.DECOY = 0 /\ r.LIBRARY_RT = NULL
    /\ Len(Out.PRECURSOR) >= 1

====
